---- MODULE Spec2Model ----
(***************************************************************************)
(* A model of the lisp.rs read-eval-print loop (src/bin/step2.rs) and of   *)
(* its tree-walking evaluator (src/eval/mod.rs).                           *)
(*                                                                         *)
(* The evaluator, the value printer and the REPL loop are translated from  *)
(* the Rust source.  The interner, the code map, the lexer, the parser,    *)
(* the environment stack and the built-in functions belong to modules of   *)
(* the crate whose source is not at hand (util::interner, syntax::codemap, *)
(* syntax::parse, eval::env); they are modelled from their description in  *)
(* spec.md.  Values are printed by Value::display.                         *)
(***************************************************************************)
EXTENDS Integers, Sequences, FiniteSets, TLC

(***************************************************************************)
(* Text.  A text is a sequence of one-character strings; a Source owns the *)
(* text of one input line.  A Span <<lo, hi>> is the half-open byte range  *)
(* [lo, hi) of a Source, offsets counted from 0.                           *)
(***************************************************************************)
Whitespace == {" ", ","}

Delimiters == {"(", ")", "[", "]"}

Digits == <<"0", "1", "2", "3", "4", "5", "6", "7", "8", "9">>

IsDigit(c) == \E d \in 1..10 : Digits[d] = c

DigitValue(c) == (CHOOSE d \in 1..10 : Digits[d] = c) - 1

\* &source[span]: the bytes lo .. hi-1 of the source
Slice(source, span) == SubSeq(source, span[1] + 1, span[2])

(***************************************************************************)
(* Interner: a growing table of distinct texts; the Name of a text is its  *)
(* position in the table.                                                  *)
(***************************************************************************)
InternerNew == << >>

InternerHas(table, text) == \E n \in 1..Len(table) : table[n] = text

\* intern(text): the handle of an already known text, else a fresh one
InternName(table, text) ==
    IF InternerHas(table, text)
    THEN CHOOSE n \in 1..Len(table) : table[n] = text
    ELSE Len(table) + 1

InternTable(table, text) ==
    IF InternerHas(table, text) THEN table ELSE Append(table, text)

\* interner.get(name): the text of a handle
InternerGet(table, name) == table[name]

(***************************************************************************)
(* Lexer.                                                                  *)
(***************************************************************************)
DefWord == <<"d", "e", "f">>
IfWord == <<"i", "f">>
LetWord == <<"l", "e", "t">>
NilWord == <<"n", "i", "l">>
TrueWord == <<"t", "r", "u", "e">>
FalseWord == <<"f", "a", "l", "s", "e">>

RECURSIVE ScanRun(_, _)
\* end of the maximal run of non-whitespace, non-delimiter bytes from pos
ScanRun(source, pos) ==
    IF pos >= Len(source) THEN pos
    ELSE IF source[pos + 1] \in Whitespace \cup Delimiters THEN pos
    ELSE ScanRun(source, pos + 1)

RECURSIVE ScanString(_, _)
\* offset just past the closing quote of a string whose body starts at pos,
\* or -1 when the line ends first; a backslash escapes the next byte
ScanString(source, pos) ==
    IF pos >= Len(source) THEN -1
    ELSE IF source[pos + 1] = "\"" THEN pos + 1
    ELSE IF source[pos + 1] = "\\" THEN ScanString(source, pos + 2)
    ELSE ScanString(source, pos + 1)

\* an optional `-` followed by one or more decimal digits
IsIntegerText(text) ==
    LET body == IF Len(text) > 0 /\ text[1] = "-" THEN Tail(text) ELSE text
    IN  Len(body) > 0 /\ \A k \in 1..Len(body) : IsDigit(body[k])

\* a run that starts like a number: a digit, or `-` and a digit
StartsNumber(text) ==
    \/ Len(text) > 0 /\ IsDigit(text[1])
    \/ Len(text) > 1 /\ text[1] = "-" /\ IsDigit(text[2])

RECURSIVE DigitsValue(_, _)
DigitsValue(body, acc) ==
    IF body = << >> THEN acc
    ELSE DigitsValue(Tail(body), 10 * acc + DigitValue(Head(body)))

IntegerValue(text) ==
    IF text[1] = "-" THEN 0 - DigitsValue(Tail(text), 0)
    ELSE DigitsValue(text, 0)

Tok(kind, lo, hi, val) == [kind |-> kind, span |-> <<lo, hi>>, val |-> val]

LexErr(kind, lo, hi, table) ==
    [ok |-> FALSE, error |-> [err |-> kind, span |-> <<lo, hi>>],
     interner |-> table]

\* the token made of the run [pos, hi) that is not a delimiter, string or
\* keyword
WordToken(source, pos, hi, table) ==
    LET text == Slice(source, <<pos, hi>>) IN
    IF IsIntegerText(text) THEN Tok("Integer", pos, hi, IntegerValue(text))
    ELSE IF text = DefWord THEN Tok("Op", pos, hi, 1)
    ELSE IF text = IfWord THEN Tok("Op", pos, hi, 2)
    ELSE IF text = LetWord THEN Tok("Op", pos, hi, 3)
    ELSE IF text = NilWord THEN Tok("Nil", pos, hi, 0)
    ELSE IF text = TrueWord THEN Tok("BoolTrue", pos, hi, 0)
    ELSE IF text = FalseWord THEN Tok("BoolFalse", pos, hi, 0)
    ELSE Tok("Symbol", pos, hi, InternName(table, text))

RECURSIVE Lex(_, _, _, _)
\* tokens of the source from offset pos on, appended to acc
Lex(source, pos, table, acc) ==
    IF pos >= Len(source) THEN [ok |-> TRUE, tokens |-> acc, interner |-> table]
    ELSE IF source[pos + 1] \in Whitespace THEN Lex(source, pos + 1, table, acc)
    ELSE LET Str(hi) ==
                 IF hi < 0
                 THEN [ok |-> FALSE, error |-> LexErr("UnterminatedString", pos, Len(source), table)]
                 ELSE [ok |-> TRUE, next |-> hi, table |-> table,
                       tok |-> Tok("String", pos, hi, 0)]
             Kw(hi) ==
                 IF hi = pos + 1
                 THEN [ok |-> FALSE, error |-> LexErr("InvalidKeyword", pos, hi, table)]
                 ELSE [ok |-> TRUE, next |-> hi,
                       table |-> InternTable(table, Slice(source, <<pos + 1, hi>>)),
                       tok |-> Tok("Keyword", pos, hi,
                                   InternName(table, Slice(source, <<pos + 1, hi>>)))]
             Word(hi, text, tok) ==
                 IF StartsNumber(text) /\ ~IsIntegerText(text)
                 THEN [ok |-> FALSE, error |-> LexErr("InvalidInteger", pos, hi, table)]
                 ELSE [ok |-> TRUE, next |-> hi,
                       table |-> IF tok.kind = "Symbol" THEN InternTable(table, text)
                                 ELSE table,
                       tok |-> tok]
             One(c) ==
                 IF c = "(" THEN [ok |-> TRUE, next |-> pos + 1, table |-> table,
                                  tok |-> Tok("LParen", pos, pos + 1, 0)]
                 ELSE IF c = ")" THEN [ok |-> TRUE, next |-> pos + 1, table |-> table,
                                       tok |-> Tok("RParen", pos, pos + 1, 0)]
                 ELSE IF c = "[" THEN [ok |-> TRUE, next |-> pos + 1, table |-> table,
                                       tok |-> Tok("LBracket", pos, pos + 1, 0)]
                 ELSE IF c = "]" THEN [ok |-> TRUE, next |-> pos + 1, table |-> table,
                                       tok |-> Tok("RBracket", pos, pos + 1, 0)]
                 ELSE IF c = "\"" THEN Str(ScanString(source, pos + 1))
                 ELSE IF c = ":" THEN Kw(ScanRun(source, pos + 1))
                 ELSE Word(ScanRun(source, pos),
                           Slice(source, <<pos, ScanRun(source, pos)>>),
                           WordToken(source, pos, ScanRun(source, pos), table))
             Step(one) ==
                 IF one.ok THEN Lex(source, one.next, one.table, Append(acc, one.tok))
                 ELSE one.error
         IN  Step(One(source[pos + 1]))

(***************************************************************************)
(* Parser: expr := atom | list | vector, one expression per source.        *)
(* An Expr is a record [node, span, ...]: Bool has b, Integer has i,       *)
(* Keyword and Symbol have name, Operator has op, List and Vector have     *)
(* exprs.                                                                  *)
(***************************************************************************)
Operators == <<"Def", "If", "Let">>

ParseErr(kind, span) == [ok |-> FALSE, error |-> [err |-> kind, span |-> span]]

ParseOk(e, next) == [ok |-> TRUE, expr |-> e, next |-> next]

\* atom := Integer | String | Keyword | Symbol | BoolTrue | BoolFalse | Nil | Op
ParseAtom(tok) ==
    IF tok.kind = "Integer" THEN [node |-> "Integer", span |-> tok.span, i |-> tok.val]
    ELSE IF tok.kind = "String" THEN [node |-> "String", span |-> tok.span]
    ELSE IF tok.kind = "Keyword" THEN [node |-> "Keyword", span |-> tok.span, name |-> tok.val]
    ELSE IF tok.kind = "Symbol" THEN [node |-> "Symbol", span |-> tok.span, name |-> tok.val]
    ELSE IF tok.kind = "BoolTrue" THEN [node |-> "Bool", span |-> tok.span, b |-> TRUE]
    ELSE IF tok.kind = "BoolFalse" THEN [node |-> "Bool", span |-> tok.span, b |-> FALSE]
    ELSE IF tok.kind = "Nil" THEN [node |-> "Nil", span |-> tok.span]
    ELSE [node |-> "Operator", span |-> tok.span, op |-> Operators[tok.val]]

RECURSIVE ParseExpr(_, _, _)
RECURSIVE ParseItems(_, _, _, _, _, _)

\* the expression that starts at token k
ParseExpr(tokens, k, eof) ==
    IF k > Len(tokens) THEN ParseErr("UnexpectedEndOfInput", <<eof, eof>>)
    ELSE LET Starting(tok) ==
                 IF tok.kind = "LParen"
                 THEN ParseItems(tokens, k + 1, eof, tok, "RParen", << >>)
                 ELSE IF tok.kind = "LBracket"
                 THEN ParseItems(tokens, k + 1, eof, tok, "RBracket", << >>)
                 ELSE IF tok.kind \in {"RParen", "RBracket"}
                 THEN ParseErr("UnexpectedToken", tok.span)
                 ELSE ParseOk(ParseAtom(tok), k + 1)
         IN  Starting(tokens[k])

\* the elements of the list or vector opened by `open`, up to its closer
ParseItems(tokens, k, eof, open, closer, acc) ==
    IF k > Len(tokens) THEN ParseErr("UnbalancedDelimiter", open.span)
    ELSE IF tokens[k].kind = closer THEN
        ParseOk([node |-> IF closer = "RParen" THEN "List" ELSE "Vector",
                 span |-> <<open.span[1], tokens[k].span[2]>>,
                 exprs |-> acc], k + 1)
    ELSE IF tokens[k].kind \in {"RParen", "RBracket"} THEN
        ParseErr("UnbalancedDelimiter", open.span)
    ELSE LET More(item) ==
                 IF item.ok THEN ParseItems(tokens, item.next, eof, open, closer,
                                            Append(acc, item.expr))
                 ELSE item
         IN  More(ParseExpr(tokens, k, eof))

\* parse::expr(source, interner)
Parse(source, table) ==
    LET One(lexed, parsed) ==
            IF ~parsed.ok
            THEN [ok |-> FALSE, error |-> parsed.error, interner |-> lexed.interner]
            ELSE IF parsed.next <= Len(lexed.tokens)
            THEN [ok |-> FALSE,
                  error |-> [err |-> "UnexpectedToken",
                             span |-> lexed.tokens[parsed.next].span],
                  interner |-> lexed.interner]
            ELSE [ok |-> TRUE, expr |-> parsed.expr, interner |-> lexed.interner]
        Lexed(lexed) ==
            IF ~lexed.ok THEN lexed
            ELSE One(lexed, ParseExpr(lexed.tokens, 1, Len(source)))
    IN  Lexed(Lex(source, 0, table, << >>))

(***************************************************************************)
(* Values.  A Value is a record [kind, ...]: Bool has b, Integer has i,    *)
(* Keyword has name, String has s (a text), Vector has elems and Function  *)
(* has f, the identity of the shared callable.                             *)
(***************************************************************************)
VBool(b) == [kind |-> "Bool", b |-> b]

VInteger(i) == [kind |-> "Integer", i |-> i]

VKeyword(name) == [kind |-> "Keyword", name |-> name]

VNil == [kind |-> "Nil"]

VString(s) == [kind |-> "String", s |-> s]

VVector(elems) == [kind |-> "Vector", elems |-> elems]

VFunction(f) == [kind |-> "Function", f |-> f]

(***************************************************************************)
(* Environment stack.  A frame (Env) maps Names to Values; a Stack is a    *)
(* non-empty sequence of frames, the global frame first, the innermost     *)
(* scope last.                                                             *)
(***************************************************************************)
EnvNew == [n \in {} |-> VNil]

\* Env::insert, last write wins
EnvInsert(frame, name, value) ==
    [n \in DOMAIN frame \cup {name} |-> IF n = name THEN value ELSE frame[n]]

\* Stack::push(frame)
StackPush(stack, frame) == Append(stack, frame)

\* the release of the scope that push entered
StackPop(stack) == SubSeq(stack, 1, Len(stack) - 1)

\* Stack::insert writes to the topmost frame
StackInsert(stack, name, value) ==
    [stack EXCEPT ![Len(stack)] = EnvInsert(stack[Len(stack)], name, value)]

StackHas(stack, name) == \E d \in 1..Len(stack) : name \in DOMAIN stack[d]

\* Stack::get walks from the top frame to the global one, first hit wins
StackGet(stack, name) ==
    LET d == CHOOSE d \in 1..Len(stack) :
                 /\ name \in DOMAIN stack[d]
                 /\ \A e \in (d + 1)..Len(stack) : name \notin DOMAIN stack[e]
    IN  stack[d][name]

(***************************************************************************)
(* Built-in functions: `+` takes two Integers and returns their sum, and   *)
(* returns no value for any other arguments.                               *)
(***************************************************************************)
PlusWord == <<"+">>

NoValue == [some |-> FALSE]

SomeValue(v) == [some |-> TRUE, value |-> v]

Apply(f, args) ==
    IF /\ f = "+"
       /\ Len(args) = 2
       /\ args[1].kind = "Integer"
       /\ args[2].kind = "Integer"
    THEN SomeValue(VInteger(args[1].i + args[2].i))
    ELSE NoValue

\* Env::default(): the global frame with the built-ins installed
InternerDefault == InternTable(InternerNew, PlusWord)

EnvDefault == EnvInsert(EnvNew, InternName(InternerNew, PlusWord), VFunction("+"))

(***************************************************************************)
(* Evaluator.  Eval returns the Result of eval::expr, the stack as the     *)
(* call leaves it, and the log of what the call did, in order: the entry   *)
(* into and the exit from every expression, every insert and every         *)
(* function invocation, each with the stack at that moment.                *)
(***************************************************************************)
Ok(value) == [tag |-> "Ok", value |-> value]

\* err!(span, err)
Err(e, err) == [tag |-> "Err", err |-> err, span |-> e.span]

\* unreachable!()
Panic == [tag |-> "Panic"]

NoRes == [tag |-> "None"]

Event(ev, span, stack, res, name) ==
    [ev |-> ev, span |-> span, stack |-> stack, res |-> res, name |-> name]

Done(res, stack, log) == [res |-> res, stack |-> stack, log |-> log]

RECURSIVE Eval(_, _, _)
RECURSIVE EvalElems(_, _, _, _, _)
RECURSIVE EvalBindings(_, _, _, _, _)

\* EvalElems, were the loop to go on after a failure and report it at the end
EvalElemsKeepsGoing(exprs, k, source, stack, acc) ==
    IF k > Len(exprs) THEN Done(Ok(acc), stack, << >>)
    ELSE LET Join(r, rest) ==
                 Done(IF r.res.tag # "Ok" THEN r.res ELSE rest.res, rest.stack,
                      r.log \o rest.log)
             Push(r) ==
                 Join(r, EvalElems(exprs, k + 1, source, r.stack,
                                   IF r.res.tag # "Ok" THEN acc
                                   ELSE Append(acc, r.res.value)))
         IN  Push(Eval(exprs[k], source, stack))

\* evaluates exprs[k..] in order into acc, stopping at the first failure
EvalElems(exprs, k, source, stack, acc) ==
    IF k > Len(exprs) THEN Done(Ok(acc), stack, << >>)
    ELSE LET Join(r, rest) == Done(rest.res, rest.stack, r.log \o rest.log)
             Push(r) ==
                 IF r.res.tag # "Ok" THEN r
                 ELSE Join(r, EvalElems(exprs, k + 1, source, r.stack,
                                        Append(acc, r.res.value)))
         IN  Push(Eval(exprs[k], source, stack))

\* Operator::Def, were the symbol bound before its expression is tried
EvalDefInsertsFirst(expr, tail, source, stack) ==
    IF Len(tail) = 2 THEN
        IF tail[1].node = "Symbol" THEN
            LET Insert(value, inserted, log) ==
                    Done(value, inserted,
                         Append(log, Event("insert", expr.span, inserted, NoRes,
                                           tail[1].name)))
                Try(r) ==
                    IF r.res.tag # "Ok"
                    THEN Done(r.res, StackInsert(r.stack, tail[1].name, VNil), r.log)
                    ELSE Insert(r.res,
                                StackInsert(r.stack, tail[1].name, r.res.value),
                                r.log)
            IN  Try(Eval(tail[2], source, stack))
        ELSE Done(Err(tail[1], "ExpectedSymbol"), stack, << >>)
    ELSE Done(Err(expr, "UnsupportedOperation"), stack, << >>)

\* Operator::Def
EvalDef(expr, tail, source, stack) ==
    IF Len(tail) = 2 THEN
        IF tail[1].node = "Symbol" THEN
            LET Insert(value, inserted, log) ==
                    Done(value, inserted,
                         Append(log, Event("insert", expr.span, inserted, NoRes,
                                           tail[1].name)))
                Try(r) ==
                    IF r.res.tag # "Ok" THEN r
                    ELSE Insert(r.res,
                                StackInsert(r.stack, tail[1].name, r.res.value),
                                r.log)
            IN  Try(Eval(tail[2], source, stack))
        ELSE Done(Err(tail[1], "ExpectedSymbol"), stack, << >>)
    ELSE Done(Err(expr, "UnsupportedOperation"), stack, << >>)

\* the condition of if, were the Integer 0 false as well
TruthyButZero(value) ==
    ~(\/ value.kind = "Bool" /\ value.b = FALSE
      \/ value.kind = "Nil"
      \/ value.kind = "Integer" /\ value.i = 0)

\* Value::Bool(false) | Value::Nil => false, _ => true
Truthy(value) ==
    ~(\/ value.kind = "Bool" /\ value.b = FALSE
      \/ value.kind = "Nil")

\* Operator::If
EvalIf(expr, tail, source, stack) ==
    IF Len(tail) = 3 THEN
        LET Join(c, r) == Done(r.res, r.stack, c.log \o r.log)
            Try(c) ==
                IF c.res.tag # "Ok" THEN c
                ELSE Join(c, Eval(IF Truthy(c.res.value) THEN tail[2] ELSE tail[3],
                                  source, c.stack))
        IN  Try(Eval(tail[1], source, stack))
    ELSE Done(Err(expr, "UnsupportedOperation"), stack, << >>)

\* the loop over the bindings, were the value of a binding never inserted
EvalBindingsNoInsert(bindings, k, ret, source, stack) ==
    IF k > Len(bindings) THEN Eval(ret, source, stack)
    ELSE IF bindings[k].node = "Symbol" THEN
        LET Join(v, rest) == Done(rest.res, rest.stack, v.log \o rest.log)
            Try(v) ==
                IF v.res.tag # "Ok" THEN v
                ELSE Join(v, EvalBindings(bindings, k + 2, ret, source, v.stack))
        IN  Try(Eval(bindings[k + 1], source, stack))
    ELSE Done(Err(bindings[k], "ExpectedSymbol"), stack, << >>)

\* the loop over bindings.chunks(2), from the pair that starts at k, and
\* then the body `ret`
EvalBindings(bindings, k, ret, source, stack) ==
    IF k > Len(bindings) THEN Eval(ret, source, stack)
    ELSE IF bindings[k].node = "Symbol" THEN
        LET Join(v, inserted, rest) ==
                Done(rest.res, rest.stack,
                     v.log \o <<Event("insert", bindings[k].span, inserted,
                                      NoRes, bindings[k].name)>> \o rest.log)
            Insert(v, inserted) ==
                Join(v, inserted, EvalBindings(bindings, k + 2, ret, source, inserted))
            Try(v) ==
                IF v.res.tag # "Ok" THEN v
                ELSE Insert(v, StackInsert(v.stack, bindings[k].name, v.res.value))
        IN  Try(Eval(bindings[k + 1], source, stack))
    ELSE Done(Err(bindings[k], "ExpectedSymbol"), stack, << >>)

\* Operator::Let, were the frame released on the successful path only
EvalLetLeaksOnError(expr, tail, source, stack) ==
    IF Len(tail) = 2 THEN
        IF tail[1].node \in {"List", "Vector"} THEN
            IF Len(tail[1].exprs) % 2 # 0
            THEN Done(Err(expr, "UnsupportedOperation"), stack, << >>)
            ELSE LET Scope(pushed, r) ==
                         IF r.res.tag # "Ok"
                         THEN Done(r.res, r.stack,
                                   <<Event("push", expr.span, pushed, NoRes, 0)>> \o r.log)
                         ELSE Done(r.res, StackPop(r.stack),
                                   <<Event("push", expr.span, pushed, NoRes, 0)>> \o r.log
                                   \o <<Event("pop", expr.span, StackPop(r.stack), NoRes, 0)>>)
                 IN  Scope(StackPush(stack, EnvNew),
                           EvalBindings(tail[1].exprs, 1, tail[2], source,
                                        StackPush(stack, EnvNew)))
        ELSE Done(Err(expr, "UnsupportedOperation"), stack, << >>)
    ELSE Done(Err(expr, "UnsupportedOperation"), stack, << >>)

\* Operator::Let
EvalLet(expr, tail, source, stack) ==
    IF Len(tail) = 2 THEN
        IF tail[1].node \in {"List", "Vector"} THEN
            IF Len(tail[1].exprs) % 2 # 0
            THEN Done(Err(expr, "UnsupportedOperation"), stack, << >>)
            ELSE LET Scope(pushed, r) ==
                         Done(r.res, StackPop(r.stack),
                              <<Event("push", expr.span, pushed, NoRes, 0)>> \o r.log
                              \o <<Event("pop", expr.span, StackPop(r.stack), NoRes, 0)>>)
                 IN  Scope(StackPush(stack, EnvNew),
                           EvalBindings(tail[1].exprs, 1, tail[2], source,
                                        StackPush(stack, EnvNew)))
        ELSE Done(Err(expr, "UnsupportedOperation"), stack, << >>)
    ELSE Done(Err(expr, "UnsupportedOperation"), stack, << >>)

\* function application, were the arguments evaluated before the head is
\* found to be a Function
EvalCallArgsFirst(expr, head, tail, source, stack) ==
    IF StackHas(stack, head.name) THEN
        LET Return(out, after, log) ==
                IF out.some THEN Done(Ok(out.value), after, log)
                ELSE Done(Err(expr, "UnsupportedOperation"), after, log)
            Invoke(function, args) ==
                IF args.res.tag # "Ok" THEN args
                ELSE IF function.kind # "Function"
                THEN Done(Err(head, "ExpectedFunction"), args.stack, args.log)
                ELSE Return(Apply(function.f, args.res.value), args.stack,
                            Append(args.log,
                                   Event("invoke", expr.span, args.stack, NoRes,
                                         head.name)))
        IN  Invoke(StackGet(stack, head.name), EvalElems(tail, 1, source, stack, << >>))
    ELSE Done(Err(head, "UndefinedSymbol"), stack, << >>)

\* a list whose head is a Symbol: function application
EvalCall(expr, head, tail, source, stack) ==
    IF StackHas(stack, head.name) THEN
        LET Return(out, after, log) ==
                IF out.some THEN Done(Ok(out.value), after, log)
                ELSE Done(Err(expr, "UnsupportedOperation"), after, log)
            Invoke(function, args) ==
                IF args.res.tag # "Ok" THEN args
                ELSE Return(Apply(function.f, args.res.value), args.stack,
                            Append(args.log,
                                   Event("invoke", expr.span, args.stack, NoRes,
                                         head.name)))
            Call(value) ==
                IF value.kind = "Function"
                THEN Invoke(value, EvalElems(tail, 1, source, stack, << >>))
                ELSE Done(Err(head, "ExpectedFunction"), stack, << >>)
        IN  Call(StackGet(stack, head.name))
    ELSE Done(Err(head, "UndefinedSymbol"), stack, << >>)

\* Expr_::List
EvalList(expr, source, stack) ==
    IF expr.exprs = << >> THEN Done(Err(expr, "EmptyList"), stack, << >>)
    ELSE LET Match(head, tail) ==
                 IF head.node = "Operator" THEN
                     IF head.op = "Def" THEN EvalDef(expr, tail, source, stack)
                     ELSE IF head.op = "If" THEN EvalIf(expr, tail, source, stack)
                     ELSE EvalLet(expr, tail, source, stack)
                 ELSE IF head.node = "Symbol"
                 THEN EvalCall(expr, head, tail, source, stack)
                 ELSE Done(Err(head, "ExpectedSymbol"), stack, << >>)
         IN  Match(Head(expr.exprs), Tail(expr.exprs))

\* Expr_::String
EvalString(expr, source) == VString(Slice(source, expr.span))

\* Expr_::Symbol
EvalSymbol(expr, stack) ==
    IF StackHas(stack, expr.name) THEN Ok(StackGet(stack, expr.name))
    ELSE Err(expr, "UndefinedSymbol")

\* Expr_::Vector
EvalVector(expr, source, stack) ==
    LET Collect(r) ==
            IF r.res.tag # "Ok" THEN r
            ELSE Done(Ok(VVector(r.res.value)), r.stack, r.log)
    IN  Collect(EvalElems(expr.exprs, 1, source, stack, << >>))

\* match expr.node
EvalNode(expr, source, stack) ==
    IF expr.node = "Bool" THEN Done(Ok(VBool(expr.b)), stack, << >>)
    ELSE IF expr.node = "Integer" THEN Done(Ok(VInteger(expr.i)), stack, << >>)
    ELSE IF expr.node = "Keyword" THEN Done(Ok(VKeyword(expr.name)), stack, << >>)
    ELSE IF expr.node = "Operator" THEN Done(Panic, stack, << >>)
    ELSE IF expr.node = "List" THEN EvalList(expr, source, stack)
    ELSE IF expr.node = "Nil" THEN Done(Ok(VNil), stack, << >>)
    ELSE IF expr.node = "String" THEN Done(Ok(EvalString(expr, source)), stack, << >>)
    ELSE IF expr.node = "Symbol" THEN Done(EvalSymbol(expr, stack), stack, << >>)
    ELSE EvalVector(expr, source, stack)

\* eval::expr(expr, source, env)
Eval(expr, source, stack) ==
    LET Logged(r) ==
            Done(r.res, r.stack,
                 <<Event("enter", expr.span, stack, NoRes, 0)>> \o r.log
                 \o <<Event("exit", expr.span, r.stack, r.res, 0)>>)
    IN  Logged(EvalNode(expr, source, stack))

(***************************************************************************)
(* Value printing.                                                         *)
(***************************************************************************)
RECURSIVE DigitsText(_)
DigitsText(n) ==
    IF n < 10 THEN <<Digits[n + 1]>>
    ELSE DigitsText(n \div 10) \o <<Digits[(n % 10) + 1]>>

\* write!(string, "{}", integer)
IntegerText(i) == IF i < 0 THEN <<"-">> \o DigitsText(0 - i) ELSE DigitsText(i)

\* write!(string, "<function at {:?}>", function): the address stands for
\* the callable and is rendered here as its identity
FunctionText(f) == <<"<", "f", "u", "n", "c", "t", "i", "o", "n", " ", "a", "t", " ", f, ">">>

RECURSIVE Display(_, _)
RECURSIVE DisplayElems(_, _, _)

\* the loop of the Vector arm: a space before every element but the first
DisplayElems(elems, k, table) ==
    IF k > Len(elems) THEN << >>
    ELSE (IF k = 1 THEN << >> ELSE <<" ">>)
         \o Display(elems[k], table) \o DisplayElems(elems, k + 1, table)

\* Value::display
Display(value, table) ==
    IF value.kind = "Bool" THEN (IF value.b THEN TrueWord ELSE FalseWord)
    ELSE IF value.kind = "Function" THEN FunctionText(value.f)
    ELSE IF value.kind = "Integer" THEN IntegerText(value.i)
    ELSE IF value.kind = "Keyword" THEN InternerGet(table, value.name)
    ELSE IF value.kind = "Nil" THEN NilWord
    ELSE IF value.kind = "String" THEN value.s
    ELSE <<"[">> \o DisplayElems(value.elems, 1, table) \o <<"]">>

(***************************************************************************)
(* The step2 REPL.                                                         *)
(***************************************************************************)
VARIABLES
    pc,        \* "start", "loop", "exited" or "panicked"
    status,    \* the exit status once the process has ended
    interner,  \* the long-lived Interner
    env,       \* the long-lived environment stack
    nread,     \* the number of lines read so far
    source,    \* the Source of the last line read
    before,    \* env as it was when the last line was read
    outcome,   \* what the last iteration did with its line
    stdout     \* what the last iteration wrote before the prompt

vars == <<pc, status, interner, env, nread, source, before, outcome, stdout>>

NoOutcome == [kind |-> "none"]

NoOutput == [kind |-> "none"]

\* source.as_str().trim().is_empty()
IsBlank(line) == \A k \in 1..Len(line) : line[k] = " "

\* what one pass through the body of the `while let` loop does with a line
Iteration(line, table, stack) ==
    IF IsBlank(line)
    THEN [interner |-> table, env |-> stack, outcome |-> [kind |-> "blank"],
          stdout |-> NoOutput]
    ELSE LET Shown(parsed, r) ==
                 [interner |-> parsed.interner, env |-> r.stack,
                  outcome |-> [kind |-> "eval", expr |-> parsed.expr,
                               res |-> r.res, log |-> r.log],
                  stdout |-> IF r.res.tag = "Ok"
                             THEN [kind |-> "value",
                                   text |-> Display(r.res.value, parsed.interner)]
                             ELSE IF r.res.tag = "Err"
                             THEN [kind |-> "diagnostic", err |-> r.res.err,
                                   span |-> r.res.span]
                             ELSE NoOutput]
             Read(parsed) ==
                 IF ~parsed.ok
                 THEN [interner |-> parsed.interner, env |-> stack,
                       outcome |-> [kind |-> "syntax", error |-> parsed.error],
                       stdout |-> [kind |-> "diagnostic", err |-> parsed.error.err,
                                   span |-> parsed.error.span]]
                 ELSE Shown(parsed, Eval(parsed.expr, line, stack))
         IN  Read(Parse(line, table))

Init ==
    /\ pc = "start"
    /\ status = 0
    /\ interner = InternerDefault
    /\ env = <<EnvDefault>>
    /\ nread = 0
    /\ source = << >>
    /\ before = <<EnvDefault>>
    /\ outcome = NoOutcome
    /\ stdout = NoOutput

\* the first prompt is written and flushed
Prompt ==
    /\ pc = "start"
    /\ pc' = "loop"
    /\ UNCHANGED <<status, interner, env, nread, source, before, outcome, stdout>>

\* writing the first prompt fails: rep returns the error, main exits with 1
PromptFails ==
    /\ pc = "start"
    /\ pc' = "exited"
    /\ status' = 1
    /\ UNCHANGED <<interner, env, nread, source, before, outcome, stdout>>

\* the state after an iteration; a panic in eval ends the process, a failed
\* write makes rep return the error
Iterated(line, it, written) ==
    /\ interner' = it.interner
    /\ env' = it.env
    /\ outcome' = it.outcome
    /\ stdout' = IF written THEN it.stdout ELSE NoOutput
    /\ IF it.outcome.kind = "eval" /\ it.outcome.res.tag = "Panic"
       THEN pc' = "panicked" /\ status' = 101
       ELSE IF written THEN pc' = "loop" /\ status' = status
       ELSE pc' = "exited" /\ status' = 1
    /\ nread' = nread + 1
    /\ source' = line
    /\ before' = env

\* lines.next() is Some(Ok(line)) and every write of the iteration succeeds
Iterate(line) ==
    /\ pc = "loop"
    /\ Iterated(line, Iteration(line, interner, env), TRUE)

\* lines.next() is Some(Ok(line)) and a write of the iteration fails
IterateWriteFails(line) ==
    /\ pc = "loop"
    /\ Iterated(line, Iteration(line, interner, env), FALSE)

\* lines.next() is Some(Err(_)): try!(line) returns the error
ReadFails ==
    /\ pc = "loop"
    /\ pc' = "exited"
    /\ status' = 1
    /\ UNCHANGED <<interner, env, nread, source, before, outcome, stdout>>

\* lines.next() is None: rep returns Ok(())
EndOfInput ==
    /\ pc = "loop"
    /\ pc' = "exited"
    /\ status' = 0
    /\ UNCHANGED <<interner, env, nread, source, before, outcome, stdout>>

(***************************************************************************)
(* Input lines.  A line is the canonical text of a syntax tree: an atom    *)
(* is its lexeme, a list or a vector is its elements separated by single   *)
(* spaces between its delimiters.                                          *)
(***************************************************************************)
MaxInt == 2

MaxLines == 3

At(text) == [t |-> "A", text |-> text]

Ls(items) == [t |-> "L", items |-> items]

Vc(items) == [t |-> "V", items |-> items]

RECURSIVE Render(_)
RECURSIVE RenderItems(_, _)

RenderItems(items, k) ==
    IF k > Len(items) THEN << >>
    ELSE (IF k = 1 THEN << >> ELSE <<" ">>)
         \o Render(items[k]) \o RenderItems(items, k + 1)

Render(tree) ==
    IF tree.t = "A" THEN tree.text
    ELSE IF tree.t = "L" THEN <<"(">> \o RenderItems(tree.items, 1) \o <<")">>
    ELSE <<"[">> \o RenderItems(tree.items, 1) \o <<"]">>

SymA == At(<<"a">>)
SymB == At(<<"b">>)
SymPlus == At(PlusWord)
OpDef == At(DefWord)
OpIf == At(IfWord)
OpLet == At(LetWord)
KwK == At(<<":", "k">>)
StrS == At(<<"\"", "s", "\"">>)
StrEmpty == At(<<"\"", "\"">>)
IntAt(i) == At(IntegerText(i))

Ints == {IntAt(i) : i \in 0..MaxInt}

Symbols == {SymA, SymB, SymPlus}

Atoms ==
    Ints \cup Symbols
    \cup {At(TrueWord), At(FalseWord), At(NilWord), KwK, StrS, StrEmpty, OpDef}

\* (def s x), (if c x y), (let [s x] y), (let [s x t y] z), (h x y)
DefOf(s, x) == Ls(<<OpDef, s, x>>)
IfOf(c, x, y) == Ls(<<OpIf, c, x, y>>)
LetOf(s, x, y) == Ls(<<OpLet, Vc(<<s, x>>), y>>)
Let2Of(s, x, t, y, z) == Ls(<<OpLet, Vc(<<s, x, t, y>>), z>>)
CallOf(h, x, y) == Ls(<<h, x, y>>)

\* operands that bind a name, fail, or do neither
Tiny ==
    {IntAt(1), SymA, SymB, OpDef,
     DefOf(SymA, IntAt(0)), DefOf(SymB, SymA), Ls(<<SymA>>),
     CallOf(SymPlus, SymA, IntAt(1))}

Small ==
    Tiny \cup {At(NilWord), StrS, Ls(<< >>), Vc(<<SymB>>),
               DefOf(SymA, At(FalseWord)), CallOf(SymPlus, SymA, SymB)}

\* conditions of every kind of value, and failing ones
Conds ==
    Atoms \cup {Vc(<< >>), Vc(<<IntAt(0)>>), DefOf(SymA, At(NilWord)),
                DefOf(SymB, IntAt(0)), Ls(<<SymA>>), Ls(<< >>)}

Heads == Symbols \cup {IntAt(1), At(NilWord), KwK, Vc(<< >>), Ls(<<SymPlus>>)}

\* forms of the wrong shape
Misshapen ==
    {Ls(<<OpDef>>), Ls(<<OpDef, SymA>>), Ls(<<OpDef, IntAt(1), IntAt(2)>>),
     Ls(<<OpDef, SymA, IntAt(1), IntAt(2)>>), Ls(<<OpDef, OpDef, IntAt(1)>>),
     Ls(<<OpIf>>), Ls(<<OpIf, IntAt(1), IntAt(2)>>),
     Ls(<<OpIf, IntAt(1), IntAt(2), IntAt(1), IntAt(2)>>),
     Ls(<<OpLet>>), Ls(<<OpLet, Vc(<<SymA>>), IntAt(1)>>),
     Ls(<<OpLet, SymA, IntAt(1)>>), Ls(<<OpLet, Vc(<<IntAt(1), IntAt(2)>>), IntAt(1)>>),
     Ls(<<OpLet, Vc(<<SymA, IntAt(1), KwK, DefOf(SymB, IntAt(1))>>), SymA>>),
     Ls(<<OpLet, Ls(<<SymA, IntAt(1)>>), SymA>>),
     Ls(<<OpLet, Vc(<<SymA, IntAt(1)>>)>>), Ls(<<SymPlus>>),
     Ls(<<SymPlus, IntAt(1)>>), Ls(<<SymPlus, IntAt(1), IntAt(1), IntAt(1)>>),
     Ls(<<OpLet, Ls(<<SymA, IntAt(1), SymB>>), SymA>>)}

\* the end-to-end scenarios: (let [a 1 b (+ a 2)] (+ a b)), [1 "s" [2]],
\* (let [a b b 1] a)
Scenarios ==
    {Let2Of(SymA, IntAt(1), SymB, CallOf(SymPlus, SymA, IntAt(2)),
            CallOf(SymPlus, SymA, SymB)),
     Vc(<<IntAt(1), StrS, Vc(<<IntAt(2)>>)>>),
     Vc(<<KwK, Vc(<<KwK, KwK>>), Vc(<< >>)>>),
     Let2Of(SymA, SymB, SymB, IntAt(1), SymA)}

EvalTrees ==
    Atoms \cup Small \cup Conds \cup Misshapen \cup Scenarios
    \cup {Vc(<<x>>) : x \in Small}
    \cup {Vc(<<x, y>>) : x, y \in Small}
    \cup {Vc(<<x, y, z>>) : x, y, z \in Tiny}
    \cup {CallOf(h, x, y) : h \in Heads, x, y \in Tiny}
    \cup {Ls(<<SymPlus, x, y, z>>) : x, y, z \in Tiny}
    \cup {DefOf(s, x) : s \in {SymA, SymB}, x \in Small}
    \cup {DefOf(s, Vc(<<x, y>>)) : s \in {SymA, SymB}, x, y \in Tiny}
    \cup {DefOf(s, CallOf(SymPlus, x, y)) : s \in {SymA, SymB}, x, y \in Tiny}
    \cup {DefOf(s, LetOf(SymB, x, y)) : s \in {SymA, SymB}, x, y \in Tiny}
    \cup {IfOf(c, x, y) : c \in Conds, x, y \in Tiny}
    \cup {LetOf(s, x, y) : s \in {SymA, SymB}, x, y \in Small}
    \cup {Let2Of(s, x, t, y, z) : s, t \in {SymA, SymB}, x, y, z \in Tiny}
    \cup {LetOf(s, x, LetOf(t, y, z)) : s, t \in {SymA, SymB}, x, y, z \in Tiny}
    \cup {LetOf(s, LetOf(t, x, y), z) : s, t \in {SymA, SymB}, x, y, z \in Tiny}

EvalLines == {Render(tree) : tree \in EvalTrees}

\* the lines of a REPL session
ReplLines ==
    {<<" ", " ">>, <<"(", "a">>}
    \cup {Render(tree) : tree \in
            {SymA, OpDef, KwK, DefOf(SymA, IntAt(1)), DefOf(SymB, SymA),
             DefOf(SymA, SymPlus), CallOf(SymA, SymB, IntAt(1)),
             DefOf(SymB, Vc(<<DefOf(SymA, StrS), Ls(<<SymA>>)>>)),
             LetOf(SymA, IntAt(2), DefOf(SymB, SymA))}}

Next ==
    \/ Prompt
    \/ PromptFails
    \/ nread < MaxLines /\ \E line \in ReplLines : Iterate(line)
    \/ nread < MaxLines /\ \E line \in ReplLines : IterateWriteFails(line)
    \/ ReadFails
    \/ EndOfInput

Spec == Init /\ [][Next]_vars

(***************************************************************************)
(* The evaluation of one line, from every state that a session of          *)
(* definitions leads to.                                                   *)
(***************************************************************************)
Preludes ==
    {<< >>,
     <<DefOf(SymA, IntAt(1))>>,
     <<DefOf(SymB, IntAt(2)), DefOf(SymA, At(FalseWord))>>,
     <<DefOf(SymA, SymPlus), DefOf(SymB, KwK)>>}

RECURSIVE RunPrelude(_, _, _)
RunPrelude(prelude, table, stack) ==
    IF prelude = << >> THEN [interner |-> table, env |-> stack]
    ELSE LET it == Iteration(Render(Head(prelude)), table, stack)
         IN  RunPrelude(Tail(prelude), it.interner, it.env)

StartStates == {RunPrelude(p, InternerDefault, <<EnvDefault>>) : p \in Preludes}

InitEval ==
    /\ pc = "loop"
    /\ status = 0
    /\ \E start \in StartStates :
        /\ interner = start.interner
        /\ env = start.env
        /\ before = start.env
    /\ nread = 0
    /\ source = << >>
    /\ outcome = NoOutcome
    /\ stdout = NoOutput

NextEval == nread = 0 /\ \E line \in EvalLines : Iterate(line)

SpecEval == InitEval /\ [][NextEval]_vars

(***************************************************************************)
(* Reading the log of an evaluation.                                       *)
(***************************************************************************)
RECURSIVE SubExprs(_)
\* an expression and all the expressions nested in it
SubExprs(expr) ==
    IF expr.node \in {"List", "Vector"}
    THEN {expr} \cup UNION {SubExprs(expr.exprs[k]) : k \in 1..Len(expr.exprs)}
    ELSE {expr}

Evaluated == outcome.kind = "eval"

\* the positions in the log where the expression at span is entered / left
Enters(span) ==
    {k \in 1..Len(outcome.log) : outcome.log[k].ev = "enter" /\ outcome.log[k].span = span}

Exits(span) ==
    {k \in 1..Len(outcome.log) : outcome.log[k].ev = "exit" /\ outcome.log[k].span = span}

EnterOf(span) == CHOOSE k \in Enters(span) : TRUE

ExitOf(span) == CHOOSE k \in Exits(span) : TRUE

AllExprs == IF Evaluated THEN SubExprs(outcome.expr) ELSE {}

Entered(e) == Enters(e.span) # {}

Never(e) == Enters(e.span) = {}

Once(e) == Cardinality(Enters(e.span)) = 1 /\ Cardinality(Exits(e.span)) = 1

EnterStack(e) == outcome.log[EnterOf(e.span)].stack

ExitStack(e) == outcome.log[ExitOf(e.span)].stack

ExitRes(e) == outcome.log[ExitOf(e.span)].res

Failed(e) == Entered(e) /\ ExitRes(e).tag # "Ok"

\* the positions of the events of one kind that carry the span
Events(ev, span) ==
    {k \in 1..Len(outcome.log) : outcome.log[k].ev = ev /\ outcome.log[k].span = span}

\* the inserts into frame number depth made while e was being evaluated
InsertsDuring(e, depth) ==
    {k \in EnterOf(e.span)..ExitOf(e.span) :
        outcome.log[k].ev = "insert" /\ Len(outcome.log[k].stack) = depth}

IsForm(e, op) ==
    /\ e.node = "List"
    /\ e.exprs # << >>
    /\ e.exprs[1].node = "Operator"
    /\ e.exprs[1].op = op

Within(inner, outer) == outer[1] <= inner[1] /\ inner[2] <= outer[2]

Least(S) == CHOOSE x \in S : \A y \in S : x <= y

Top(stack) == stack[Len(stack)]

(***************************************************************************)
(* C1: def and errors inside its right-hand side.                          *)
(***************************************************************************)
\* (def x E) with a Symbol x, evaluated
DefForms ==
    {e \in AllExprs : IsForm(e, "Def") /\ Len(e.exprs) = 3
                      /\ e.exprs[2].node = "Symbol" /\ Entered(e)}

\* C1 as claimed: if evaluating (def x E) returns an error raised inside E,
\* the global Env after the evaluation equals the global Env before it.
C1_EnvUnchangedOnError ==
    (/\ Evaluated
     /\ outcome.expr \in DefForms
     /\ outcome.res.tag = "Err") => env = before

\* C1 as amended: if evaluating (def x E) returns an error raised inside E,
\* the def itself inserts nothing: it returns E's error and leaves the Env as
\* the failed evaluation of E left it, which is the Env before the def
\* whenever no def nested in E had inserted into that frame before the error.
C1_DefInsertsNothingOnError ==
    \A e \in DefForms :
        Failed(e.exprs[3]) =>
            /\ ExitRes(e) = ExitRes(e.exprs[3])
            /\ ExitStack(e) = ExitStack(e.exprs[3])
            /\ Events("insert", e.span) = {}
            /\ (InsertsDuring(e, Len(EnterStack(e))) = {}
                    => ExitStack(e) = EnterStack(e))

\* a top-level (def x E) fails inside E, x being bound before
C1_Witness ==
    /\ Evaluated
    /\ outcome.expr \in DefForms
    /\ outcome.res.tag = "Err"
    /\ outcome.expr.exprs[2].name \in DOMAIN before[1]
    /\ env = before

(***************************************************************************)
(* C2: the frame of a let.                                                 *)
(***************************************************************************)
LetNodes == {e \in AllExprs : IsForm(e, "Let") /\ Entered(e)}

\* C2: when the evaluation of a let finishes, with a value or with an error,
\* its frame has been removed: the stack is what it was before the let, so
\* the let's names are gone and the bindings they shadowed are back; after a
\* top-level evaluation the stack is the global frame only.
C2_LetFramePopped ==
    /\ Len(env) = 1
    /\ \A e \in LetNodes :
        /\ ExitStack(e) = EnterStack(e)
        /\ Cardinality(Events("push", e.span)) = Cardinality(Events("pop", e.span))
        /\ \A k \in Events("push", e.span) :
               outcome.log[k].stack = Append(EnterStack(e), EnvNew)

\* a let ends in an error after it has shadowed an outer binding
C2_Witness ==
    \E e \in LetNodes :
        /\ ExitRes(e).tag = "Err"
        /\ \E k \in InsertsDuring(e, Len(EnterStack(e)) + 1) :
               /\ StackHas(EnterStack(e), outcome.log[k].name)
               /\ StackGet(EnterStack(e), outcome.log[k].name)
                      # StackGet(outcome.log[k].stack, outcome.log[k].name)

(***************************************************************************)
(* C3: if.                                                                 *)
(***************************************************************************)
IfForms == {e \in AllExprs : IsForm(e, "If") /\ Len(e.exprs) = 4 /\ Entered(e)}

\* the falsey values: Bool(false) and Nil
Falsey(value) == value = VBool(FALSE) \/ value = VNil

\* the if evaluated `chosen` and only it
Chose(e, chosen, other) ==
    /\ Once(chosen)
    /\ Never(other)
    /\ EnterStack(chosen) = ExitStack(e.exprs[2])
    /\ ExitRes(e) = ExitRes(chosen)
    /\ ExitStack(e) = ExitStack(chosen)

\* C3: a three-argument if evaluates its condition once; on Bool(false) or
\* Nil the result is the evaluation of the else branch, on any other value
\* that of the then branch; the other branch is not evaluated.
C3_IfChoosesOneBranch ==
    \A e \in IfForms :
        /\ Once(e.exprs[2])
        /\ EnterStack(e.exprs[2]) = EnterStack(e)
        /\ IF ExitRes(e.exprs[2]).tag # "Ok"
           THEN /\ Never(e.exprs[3])
                /\ Never(e.exprs[4])
                /\ ExitRes(e) = ExitRes(e.exprs[2])
                /\ ExitStack(e) = ExitStack(e.exprs[2])
           ELSE IF Falsey(ExitRes(e.exprs[2]).value)
           THEN Chose(e, e.exprs[4], e.exprs[3])
           ELSE Chose(e, e.exprs[3], e.exprs[4])

\* an if whose condition is the Integer 0 or an empty Vector takes the then
\* branch and leaves alone an else branch that is a def
C3_Witness ==
    \E e \in IfForms :
        /\ ExitRes(e.exprs[2]) \in {Ok(VInteger(0)), Ok(VVector(<< >>))}
        /\ IsForm(e.exprs[4], "Def")
        /\ Entered(e.exprs[3])
        /\ ExitRes(e).tag = "Ok"

(***************************************************************************)
(* C4: the order of evaluation of arguments and vector elements.           *)
(***************************************************************************)
\* lists whose head is a Symbol bound to a Function when the list is entered
FunctionCalls ==
    {e \in AllExprs :
        /\ e.node = "List"
        /\ e.exprs # << >>
        /\ e.exprs[1].node = "Symbol"
        /\ Entered(e)
        /\ StackHas(EnterStack(e), e.exprs[1].name)
        /\ StackGet(EnterStack(e), e.exprs[1].name).kind = "Function"}

VectorNodes == {e \in AllExprs : e.node = "Vector" /\ Entered(e)}

\* the index of the first of elems whose evaluation failed, else Len + 1
FirstFailure(elems) ==
    Least({i \in 1..Len(elems) : Failed(elems[i])} \cup {Len(elems) + 1})

\* elems are evaluated in order, each once, each in the stack its
\* predecessor left, up to and including the first failure; that failure
\* is the result of e and nothing after it is evaluated
InSourceOrder(e, elems) ==
    /\ \A i \in 1..Len(elems) :
        IF i <= FirstFailure(elems)
        THEN /\ Once(elems[i])
             /\ EnterStack(elems[i]) =
                    IF i = 1 THEN EnterStack(e) ELSE ExitStack(elems[i - 1])
             /\ i > 1 => ExitOf(elems[i - 1].span) < EnterOf(elems[i].span)
        ELSE Never(elems[i])
    /\ FirstFailure(elems) <= Len(elems) =>
        /\ ExitRes(e) = ExitRes(elems[FirstFailure(elems)])
        /\ ExitStack(e) = ExitStack(elems[FirstFailure(elems)])
        /\ Events("invoke", e.span) = {}

\* every element succeeded: the vector holds the values in order, the
\* function is invoked once, after the last argument
AllSucceeded(e, elems) ==
    FirstFailure(elems) > Len(elems) =>
        IF e.node = "Vector"
        THEN ExitRes(e) = Ok(VVector([i \in 1..Len(elems) |-> ExitRes(elems[i]).value]))
        ELSE /\ Cardinality(Events("invoke", e.span)) = 1
             /\ \A k \in Events("invoke", e.span) :
                    \A i \in 1..Len(elems) : ExitOf(elems[i].span) < k

ElementsOf(e) == IF e.node = "Vector" THEN e.exprs ELSE Tail(e.exprs)

\* C4 as claimed: arguments and vector elements are evaluated in source
\* order, each once until the first failure, and the result is then that
\* error with the span of the failing element.
C4_FirstFailureAtElementSpan ==
    \A e \in FunctionCalls \cup VectorNodes :
        /\ InSourceOrder(e, ElementsOf(e))
        /\ AllSucceeded(e, ElementsOf(e))
        /\ (/\ FirstFailure(ElementsOf(e)) <= Len(ElementsOf(e))
            /\ ExitRes(e).tag = "Err")
               => ExitRes(e).span = ElementsOf(e)[FirstFailure(ElementsOf(e))].span

\* C4 as amended: arguments and vector elements are evaluated in source
\* order, each once until the first failure; the result is then the error
\* that element returned, whose span lies within the span of that element;
\* the effects of the elements before it have taken place, no later element
\* is evaluated and the function is not invoked.
C4_LeftToRight ==
    \A e \in FunctionCalls \cup VectorNodes :
        /\ InSourceOrder(e, ElementsOf(e))
        /\ AllSucceeded(e, ElementsOf(e))
        /\ (/\ FirstFailure(ElementsOf(e)) <= Len(ElementsOf(e))
            /\ ExitRes(e).tag = "Err")
               => Within(ExitRes(e).span,
                         ElementsOf(e)[FirstFailure(ElementsOf(e))].span)

\* an element that is neither the first nor the last fails at a span inside
\* it, after an earlier element has changed the environment
C4_Witness ==
    \E e \in FunctionCalls \cup VectorNodes :
        /\ FirstFailure(ElementsOf(e)) > 1
        /\ FirstFailure(ElementsOf(e)) < Len(ElementsOf(e))
        /\ ExitRes(e).tag = "Err"
        /\ ExitRes(e).span # ElementsOf(e)[FirstFailure(ElementsOf(e))].span
        /\ ExitStack(e) # EnterStack(e)

(***************************************************************************)
(* C9: the head of a list that is not a special form.                      *)
(***************************************************************************)
Applications ==
    {e \in AllExprs :
        /\ e.node = "List"
        /\ Entered(e)
        /\ (e.exprs = << >> \/ e.exprs[1].node # "Operator")}

\* e fails with err at span, evaluates no argument and leaves the stack alone
Rejected(e, err, span) ==
    /\ ExitRes(e) = [tag |-> "Err", err |-> err, span |-> span]
    /\ \A i \in 2..Len(e.exprs) : Never(e.exprs[i])
    /\ ExitStack(e) = EnterStack(e)
    /\ Events("invoke", e.span) = {}

\* the values of the arguments of e
Arguments(e) == [i \in 1..(Len(e.exprs) - 1) |-> ExitRes(e.exprs[i + 1]).value]

\* C9: the empty list gives EmptyList at the list; a head that is not a
\* Symbol gives ExpectedSymbol, an unbound one UndefinedSymbol, one bound to
\* a non-Function ExpectedFunction, each at the head and with no argument
\* evaluated and no change of the environment; for a Function head the
\* arguments are evaluated and the function invoked, and a function that
\* returns no value gives UnsupportedOperation at the whole list.
C9_HeadClassifiedFirst ==
    \A e \in Applications :
        IF e.exprs = << >> THEN Rejected(e, "EmptyList", e.span)
        ELSE IF e.exprs[1].node # "Symbol"
        THEN Rejected(e, "ExpectedSymbol", e.exprs[1].span)
        ELSE IF ~StackHas(EnterStack(e), e.exprs[1].name)
        THEN Rejected(e, "UndefinedSymbol", e.exprs[1].span)
        ELSE IF StackGet(EnterStack(e), e.exprs[1].name).kind # "Function"
        THEN Rejected(e, "ExpectedFunction", e.exprs[1].span)
        ELSE /\ Never(e.exprs[1])
             /\ Len(e.exprs) > 1 => Once(e.exprs[2])
             /\ IF \E i \in 2..Len(e.exprs) : Never(e.exprs[i]) \/ Failed(e.exprs[i])
                THEN Events("invoke", e.span) = {}
                ELSE /\ Cardinality(Events("invoke", e.span)) = 1
                     /\ ExitRes(e) =
                            IF Apply(StackGet(EnterStack(e), e.exprs[1].name).f,
                                     Arguments(e)).some
                            THEN Ok(Apply(StackGet(EnterStack(e), e.exprs[1].name).f,
                                          Arguments(e)).value)
                            ELSE [tag |-> "Err", err |-> "UnsupportedOperation",
                                  span |-> e.span]

\* a list whose head is bound to a non-Function is rejected with a def among
\* its arguments
C9_Witness ==
    \E e \in Applications :
        /\ Len(e.exprs) > 1
        /\ IsForm(e.exprs[2], "Def")
        /\ ExitRes(e).tag = "Err"
        /\ ExitRes(e).err = "ExpectedFunction"

(***************************************************************************)
(* C10: the bindings of a let.                                             *)
(***************************************************************************)
\* (let [sym_1 expr_1 ... sym_k expr_k] body), evaluated
LetForms ==
    {e \in LetNodes :
        /\ Len(e.exprs) = 3
        /\ e.exprs[2].node \in {"List", "Vector"}
        /\ Len(e.exprs[2].exprs) % 2 = 0
        /\ \A j \in 1..Len(e.exprs[2].exprs) :
               j % 2 = 1 => e.exprs[2].exprs[j].node = "Symbol"}

Pairs(e) == Len(e.exprs[2].exprs) \div 2

SymOf(e, i) == e.exprs[2].exprs[2 * i - 1]

ExprOf(e, i) == e.exprs[2].exprs[2 * i]

\* what is evaluated after pair i: the next binding expression or the body
After(e, i) == IF i = Pairs(e) THEN e.exprs[3] ELSE ExprOf(e, i + 1)

FirstFailedPair(e) ==
    Least({i \in 1..Pairs(e) : Failed(ExprOf(e, i))} \cup {Pairs(e) + 1})

\* the names that a def inserted into the frame of e before position k
DefinedBefore(e, k) ==
    {outcome.log[m].name : m \in {m \in InsertsDuring(e, Len(EnterStack(e)) + 1) :
                                     m < k /\ \E d \in DefForms :
                                                 d.span = outcome.log[m].span}}

\* C10: the pairs of a let are processed in order: expr_i is evaluated in a
\* stack whose top frame holds the bindings of sym_1 .. sym_(i-1) (and what
\* the earlier expressions defined), sym_i is inserted only once expr_i has
\* succeeded, and the body is evaluated with all the bindings; so
\* (let [a 1 b (+ a 2)] (+ a b)) is 4, and a binding does not see a later one.
C10_LetBindsInOrder ==
    /\ \A e \in LetForms :
        /\ EnterStack(After(e, 0)) = Append(EnterStack(e), EnvNew)
        /\ \A i \in 1..Pairs(e) :
            IF i <= FirstFailedPair(e)
            THEN /\ Once(ExprOf(e, i))
                 /\ DOMAIN Top(EnterStack(ExprOf(e, i))) =
                        {SymOf(e, j).name : j \in 1..(i - 1)}
                        \cup DefinedBefore(e, EnterOf(ExprOf(e, i).span))
                 /\ ~Failed(ExprOf(e, i)) =>
                        EnterStack(After(e, i)) =
                            StackInsert(ExitStack(ExprOf(e, i)), SymOf(e, i).name,
                                        ExitRes(ExprOf(e, i)).value)
            ELSE Never(ExprOf(e, i))
        /\ IF FirstFailedPair(e) <= Pairs(e)
           THEN /\ Never(e.exprs[3])
                /\ ExitRes(e) = ExitRes(ExprOf(e, FirstFailedPair(e)))
           ELSE /\ Once(e.exprs[3])
                /\ ExitRes(e) = ExitRes(e.exprs[3])
    /\ source = Render(Let2Of(SymA, IntAt(1), SymB, CallOf(SymPlus, SymA, IntAt(2)),
                              CallOf(SymPlus, SymA, SymB)))
           => stdout = [kind |-> "value", text |-> <<"4">>]
    /\ source = Render(Let2Of(SymA, SymB, SymB, IntAt(1), SymA)) =>
           outcome.res =
               IF StackHas(before, ExprOf(outcome.expr, 1).name)
               THEN Ok(StackGet(before, ExprOf(outcome.expr, 1).name))
               ELSE [tag |-> "Err", err |-> "UndefinedSymbol",
                     span |-> ExprOf(outcome.expr, 1).span]

\* the second binding of a let uses the first one and the body uses both
C10_Witness ==
    /\ source = Render(Let2Of(SymA, IntAt(1), SymB, CallOf(SymPlus, SymA, IntAt(2)),
                              CallOf(SymPlus, SymA, SymB)))
    /\ outcome.res = Ok(VInteger(4))
    /\ \E e \in LetForms : Pairs(e) = 2 /\ Once(e.exprs[3])

(***************************************************************************)
(* C6, C7, C8: strings, bare operators, printing.                          *)
(***************************************************************************)
\* C6: a String expression, whose span covers both quotes, evaluates to the
\* bytes of the Source between the quotes, the quotes excluded; so
\* [1 "s" [2]] prints as [1 s [2]].
C6_StringBetweenQuotes ==
    /\ \A e \in AllExprs :
        (e.node = "String" /\ Entered(e)) =>
            /\ source[e.span[1] + 1] = "\""
            /\ source[e.span[2]] = "\""
            /\ ExitRes(e) = Ok(VString(Slice(source, <<e.span[1] + 1, e.span[2] - 1>>)))
    /\ source = Render(Vc(<<IntAt(1), StrS, Vc(<<IntAt(2)>>)>>)) =>
        stdout = [kind |-> "value",
                  text |-> <<"[", "1", " ", "s", " ", "[", "2", "]", "]">>]

\* C7: for every expression that the grammar produces, eval::expr returns a
\* Value or a Spanned Error; the Operator arm (unreachable!) is never reached.
C7_ValueOrError == Evaluated => outcome.res.tag \in {"Ok", "Err"}

RECURSIVE Rendering(_, _)
RECURSIVE RenderingOfElems(_, _, _)

RenderingOfElems(elems, k, table) ==
    IF k > Len(elems) THEN << >>
    ELSE (IF k = 1 THEN << >> ELSE <<" ">>)
         \o Rendering(elems[k], table) \o RenderingOfElems(elems, k + 1, table)

\* the rendering of a value as section 6 of the specification tabulates it
Rendering(value, table) ==
    IF value.kind = "Bool" THEN (IF value.b THEN TrueWord ELSE FalseWord)
    ELSE IF value.kind = "Function" THEN FunctionText(value.f)
    ELSE IF value.kind = "Integer" THEN IntegerText(value.i)
    ELSE IF value.kind = "Keyword" THEN <<":">> \o InternerGet(table, value.name)
    ELSE IF value.kind = "Nil" THEN NilWord
    ELSE IF value.kind = "String" THEN value.s
    ELSE <<"[">> \o RenderingOfElems(value.elems, 1, table) \o <<"]">>

\* C8: a Keyword prints as `:` followed by the text of its Name, which is
\* the keyword without its colon, so that :k prints as :k; a Vector prints
\* as its elements' renderings joined by single spaces between [ and ].
C8_KeywordPrintsWithColon ==
    /\ (Evaluated /\ outcome.res.tag = "Ok") =>
           stdout = [kind |-> "value", text |-> Rendering(outcome.res.value, interner)]
    /\ (Evaluated /\ outcome.expr.node = "Keyword") =>
           /\ InternerGet(interner, outcome.expr.name) = Tail(source)
           /\ stdout = [kind |-> "value", text |-> source]

(***************************************************************************)
(* C5: the session.                                                        *)
(***************************************************************************)
\* C5: the environment is created once and persists: each line is evaluated
\* in the environment the lines before it left, a successful top-level def
\* binds its name there, a blank line or a line with a parse error leaves it
\* as it is, no line empties it, and the loop ends only on end of input or
\* on an I/O error.
C5_ReplPersists ==
    [][/\ nread' = nread => env' = env
       /\ nread' # nread =>
            /\ nread' = nread + 1
            /\ before' = env
            /\ outcome'.kind \in {"blank", "syntax"} => env' = env
            /\ DOMAIN env[1] \subseteq DOMAIN env'[1]
            /\ (/\ outcome'.kind = "eval"
                /\ IsForm(outcome'.expr, "Def")
                /\ outcome'.res.tag = "Ok")
                   => /\ StackHas(env', outcome'.expr.exprs[2].name)
                      /\ StackGet(env', outcome'.expr.exprs[2].name) = outcome'.res.value
       /\ (pc = "loop" /\ pc' # "loop") =>
            /\ pc' = "exited"
            /\ \/ status' = 0 /\ nread' = nread
               \/ status' = 1]_vars

====
